---- MODULE Spec2Model ----
(***************************************************************************)
(* ResourceSubscriptionManager (fastmcp/server/resources/subscriptions.py) *)
(* as a state machine.  Tasks are coroutines that call the manager's       *)
(* methods; a task runs one call at a time.  A step of a task is the code  *)
(* between two points where another task can run: taking the lock, the     *)
(* statements of a critical section, one send_notification.                *)
(*                                                                         *)
(* URIs are the canonical strings uri_str = str(uri) that key the map;     *)
(* they are well-formed (AnyUrl(uri_str) succeeds): the manager does not   *)
(* validate them, the caller does.  Sessions are opaque identities.        *)
(***************************************************************************)
EXTENDS Naturals, Integers, Sequences, FiniteSets, TLC

\* ---------------------------------------------------------------- bounds
NumTasks == 2
NumSessions == 2
NumUris == 2

Tasks == 1..NumTasks
Sessions == 1..NumSessions
Uris == 1..NumUris

\* "no task" / "no value": the lock of __init__ is not held, a local is unset
Nil == 0

VARIABLES
    subscriptions,  \* self._subscriptions: dict uri_str -> set of sessions
    lock,           \* self._lock: the task that holds it, or Nil
    waiters,        \* self._lock._waiters: FIFO of the tasks waiting for it
    pc,             \* where each task is in its call
    op,             \* the method each task is running
    uri_str,        \* the call's uri_str = str(uri)
    session,        \* the call's session argument
    sessions,       \* notify_subscribers: the snapshot list
    cursor,         \* position of the running for loop in its list
    notification,   \* notify_subscribers: the uri the notification carries
    attempts,       \* per call: the send_notification calls started, in order
    failed,         \* per call: the sessions whose send_notification raised
    todo,           \* cleanup_on_disconnect: keys the dict iteration has not yet visited
    uris_to_clean,  \* cleanup_on_disconnect: the list of that name
    ret,            \* what the call returned
    mustGet         \* history: sessions subscribed to uri_str since the notify call was issued

vars == <<subscriptions, lock, waiters, pc, op, uri_str, session, sessions,
          cursor, notification, attempts, failed, todo, uris_to_clean, ret, mustGet>>

locals == <<sessions, cursor, notification, attempts, failed, todo, uris_to_clean>>

\* ------------------------------------------------------------ return values
Pending == [kind |-> "pending", val |-> 0]
RetNone == [kind |-> "None", val |-> 0]
RetRaise == [kind |-> "raise", val |-> 0]

RetInt(n) == [kind |-> "int", val |-> n]

RetBool(b) == [kind |-> "bool", val |-> IF b THEN 1 ELSE 0]

\* ------------------------------------------------------------ pure helpers
\* self._subscriptions.get(uri_str, set())
Get(subs, u) == IF u \in DOMAIN subs THEN subs[u] ELSE {}

\* the (uri, session) pairs a map holds
Pairs(subs) == {p \in Uris \X Sessions : p[1] \in DOMAIN subs /\ p[2] \in subs[p[1]]}

RECURSIVE SumLen(_, _)
SumLen(subs, keys) ==
    IF keys = {} THEN 0
    ELSE LET k == CHOOSE x \in keys : TRUE
         IN Cardinality(subs[k]) + SumLen(subs, keys \ {k})

\* mutant: the count is of the URIs that have subscribers
Count_Keys(subs) == Cardinality(DOMAIN subs)

\* sum(len(sessions) for sessions in self._subscriptions.values())
Count(subs) == SumLen(subs, DOMAIN subs)

\* list(a set): its elements once each, in an order the hash table decides
ListsOf(S) ==
    {q \in [1..Cardinality(S) -> S] : \A i, j \in DOMAIN q : q[i] = q[j] => i = j}

Range(q) == {q[i] : i \in DOMAIN q}

\* dict with key u bound to v (inserted or overwritten)
Put(subs, u, v) == [k \in DOMAIN subs \cup {u} |-> IF k = u THEN v ELSE subs[k]]

\* del dict[u]
Del(subs, u) == [k \in DOMAIN subs \ {u} |-> subs[k]]

\* ------------------------------------------------------------ initial state
Init ==
    /\ subscriptions = << >>
    /\ lock = Nil
    /\ waiters = << >>
    /\ pc = [t \in Tasks |-> "idle"]
    /\ op = [t \in Tasks |-> "none"]
    /\ uri_str = [t \in Tasks |-> Nil]
    /\ session = [t \in Tasks |-> Nil]
    /\ sessions = [t \in Tasks |-> << >>]
    /\ cursor = [t \in Tasks |-> 0]
    /\ notification = [t \in Tasks |-> Nil]
    /\ attempts = [t \in Tasks |-> << >>]
    /\ failed = [t \in Tasks |-> {}]
    /\ todo = [t \in Tasks |-> {}]
    /\ uris_to_clean = [t \in Tasks |-> << >>]
    /\ ret = [t \in Tasks |-> Pending]
    /\ mustGet = [t \in Tasks |-> {}]

\* ------------------------------------------------------------ the lock
\* `async with self._lock:` on entry (asyncio.Lock.acquire): the lock is taken at
\* once when it is free and nobody waits for it, otherwise the task queues up
Enter(t, o, u, s) ==
    /\ pc[t] = "idle"
    /\ op' = [op EXCEPT ![t] = o]
    /\ uri_str' = [uri_str EXCEPT ![t] = u]
    /\ session' = [session EXCEPT ![t] = s]
    /\ ret' = [ret EXCEPT ![t] = Pending]
    /\ IF lock = Nil /\ waiters = << >>
       THEN /\ lock' = t
            /\ pc' = [pc EXCEPT ![t] = "locked"]
            /\ UNCHANGED waiters
       ELSE /\ waiters' = Append(waiters, t)
            /\ pc' = [pc EXCEPT ![t] = "wait"]
            /\ UNCHANGED lock

\* asyncio.Lock: release() wakes the first waiter, which then owns the lock
Wakeup(t) ==
    /\ pc[t] = "wait"
    /\ lock = Nil
    /\ waiters # << >>
    /\ Head(waiters) = t
    /\ lock' = t
    /\ waiters' = Tail(waiters)
    /\ pc' = [pc EXCEPT ![t] = "locked"]
    /\ UNCHANGED <<subscriptions, op, uri_str, session, locals, ret, mustGet>>

\* leaving the `async with` block
Release(t) == lock' = Nil /\ UNCHANGED waiters

\* the call returns v to its caller
Finish(t, v) ==
    /\ pc' = [pc EXCEPT ![t] = "done"]
    /\ ret' = [ret EXCEPT ![t] = v]

InCall(t, o, where) == pc[t] = where /\ op[t] = o

\* history: a session removed from uri_str before the snapshot is no longer owed
StillSubscribed(subs) ==
    [x \in Tasks |->
        IF op[x] = "notify_subscribers" /\ pc[x] \in {"wait", "locked"}
        THEN mustGet[x] \cap Get(subs, uri_str[x])
        ELSE mustGet[x]]

\* ------------------------------------------------------------ subscribe
\* mutant: the set of the key is replaced, not added to
SubscribeEffect_Overwrite(subs, u, s) == Put(subs, u, {s})

SubscribeEffect(subs, u, s) ==
    LET base == IF u \notin DOMAIN subs THEN Put(subs, u, {}) ELSE subs
    IN Put(base, u, base[u] \cup {s})

subscribe(t) ==
    /\ \E u \in Uris, s \in Sessions : Enter(t, "subscribe", u, s)
    /\ UNCHANGED <<subscriptions, locals, mustGet>>

\* mutant: subscribing sends the resource's current state to the new subscriber
subscribe_locked_Announce(t) ==
    /\ InCall(t, "subscribe", "locked")
    /\ subscriptions' = SubscribeEffect(subscriptions, uri_str[t], session[t])
    /\ attempts' = [attempts EXCEPT ![t] =
                      Append(@, [to |-> session[t], uri |-> uri_str[t]])]
    /\ Release(t)
    /\ Finish(t, RetNone)
    /\ UNCHANGED <<op, uri_str, session, sessions, cursor, notification, failed,
                   todo, uris_to_clean, mustGet>>

subscribe_locked(t) ==
    /\ InCall(t, "subscribe", "locked")
    /\ subscriptions' = SubscribeEffect(subscriptions, uri_str[t], session[t])
    /\ Release(t)
    /\ Finish(t, RetNone)
    /\ UNCHANGED <<op, uri_str, session, locals, mustGet>>

\* ------------------------------------------------------------ unsubscribe
\* mutant: the empty set is left under its key
UnsubscribeEffect_KeepKey(subs, u, s) ==
    IF u \in DOMAIN subs THEN Put(subs, u, subs[u] \ {s}) ELSE subs

\* mutant: the session is removed from every URI's set
UnsubscribeEffect_Everywhere(subs, u, s) ==
    LET d == [k \in DOMAIN subs |-> subs[k] \ {s}]
    IN [k \in {x \in DOMAIN d : d[x] # {}} |-> d[k]]

\* mutant: the key is deleted with the session, whoever else is subscribed
UnsubscribeEffect_DropKey(subs, u, s) ==
    IF u \in DOMAIN subs /\ s \in subs[u] THEN Del(subs, u) ELSE subs

UnsubscribeEffect(subs, u, s) ==
    IF u \in DOMAIN subs
    THEN LET d == Put(subs, u, subs[u] \ {s})
         IN IF d[u] = {} THEN Del(d, u) ELSE d
    ELSE subs

unsubscribe(t) ==
    /\ \E u \in Uris, s \in Sessions : Enter(t, "unsubscribe", u, s)
    /\ UNCHANGED <<subscriptions, locals, mustGet>>

unsubscribe_locked(t) ==
    /\ InCall(t, "unsubscribe", "locked")
    /\ subscriptions' = UnsubscribeEffect(subscriptions, uri_str[t], session[t])
    /\ mustGet' = StillSubscribed(subscriptions')
    /\ Release(t)
    /\ Finish(t, RetNone)
    /\ UNCHANGED <<op, uri_str, session, locals>>

\* ------------------------------------------------------------ notify_subscribers
\* mutant: the snapshot takes the subscribers of every URI
Snapshot_AllUris(subs, u) == ListsOf(UNION {subs[k] : k \in DOMAIN subs})

\* sessions = list(self._subscriptions.get(uri_str, set()))
Snapshot(subs, u) == ListsOf(Get(subs, u))

notify_subscribers(t) ==
    /\ \E u \in Uris : Enter(t, "notify_subscribers", u, Nil)
    /\ mustGet' = [mustGet EXCEPT ![t] = Get(subscriptions, uri_str'[t])]
    /\ UNCHANGED <<subscriptions, locals>>

\* mutant: without `if not sessions: return`, the notification is built before
\* the loop finds nothing to send
TakeSnapshot_NoEarlyReturn(t) ==
    /\ InCall(t, "notify_subscribers", "locked")
    /\ \E q \in Snapshot(subscriptions, uri_str[t]) :
          /\ sessions' = [sessions EXCEPT ![t] = q]
          /\ notification' = [notification EXCEPT ![t] = uri_str[t]]
          /\ IF q = << >>
             THEN /\ Finish(t, RetNone)
                  /\ UNCHANGED cursor
             ELSE /\ cursor' = [cursor EXCEPT ![t] = 1]
                  /\ pc' = [pc EXCEPT ![t] = "loop"]
                  /\ UNCHANGED ret
    /\ UNCHANGED <<subscriptions, op, uri_str, session, attempts, failed, todo,
                   uris_to_clean, mustGet>>

\* the copy under the lock, then (the lock released) `if not sessions: return` and
\* the construction of the notification for AnyUrl(uri_str)
TakeSnapshot(t) ==
    /\ InCall(t, "notify_subscribers", "locked")
    /\ \E q \in Snapshot(subscriptions, uri_str[t]) :
          /\ sessions' = [sessions EXCEPT ![t] = q]
          /\ IF q = << >>
             THEN /\ Finish(t, RetNone)
                  /\ UNCHANGED <<notification, cursor>>
             ELSE /\ notification' = [notification EXCEPT ![t] = uri_str[t]]
                  /\ cursor' = [cursor EXCEPT ![t] = 1]
                  /\ pc' = [pc EXCEPT ![t] = "loop"]
                  /\ UNCHANGED ret
    /\ UNCHANGED <<subscriptions, op, uri_str, session, attempts, failed, todo,
                   uris_to_clean, mustGet>>

\* mutant: the sends are inside the `async with` block
notify_locked_HoldLock(t) == TakeSnapshot(t) /\ UNCHANGED <<lock, waiters>>

\* the `async with self._lock:` block of notify_subscribers holds only the copy
notify_locked(t) == TakeSnapshot(t) /\ Release(t)

\* mutant: the notification goes to any connected session, subscribed or not
notify_send_Broadcast(t) ==
    /\ InCall(t, "notify_subscribers", "loop")
    /\ \E s \in Sessions :
          attempts' = [attempts EXCEPT ![t] =
                          Append(@, [to |-> s, uri |-> notification[t]])]
    /\ pc' = [pc EXCEPT ![t] = "send"]
    /\ UNCHANGED <<subscriptions, lock, waiters, op, uri_str, session, sessions, cursor,
                   notification, failed, todo, uris_to_clean, ret, mustGet>>

\* `for session in sessions:` reaches its next element and calls
\* session.send_notification(notification)
notify_send(t) ==
    /\ InCall(t, "notify_subscribers", "loop")
    /\ attempts' = [attempts EXCEPT ![t] =
                      Append(@, [to |-> sessions[t][cursor[t]], uri |-> notification[t]])]
    /\ pc' = [pc EXCEPT ![t] = "send"]
    /\ UNCHANGED <<subscriptions, lock, waiters, op, uri_str, session, sessions, cursor,
                   notification, failed, todo, uris_to_clean, ret, mustGet>>

\* mutant: the method returns after its first send
NextIteration_ReturnEarly(t) == Finish(t, RetNone) /\ UNCHANGED cursor

\* the loop goes on to its next element, or ends and the method returns None
NextIteration(t) ==
    IF cursor[t] < Len(sessions[t])
    THEN /\ cursor' = [cursor EXCEPT ![t] = @ + 1]
         /\ pc' = [pc EXCEPT ![t] = "loop"]
         /\ UNCHANGED ret
    ELSE /\ Finish(t, RetNone)
         /\ UNCHANGED cursor

\* mutant: the exception of a send leaves the loop and the method
Suppress_Propagate(t) == Finish(t, RetRaise) /\ UNCHANGED cursor

\* `with suppress(Exception):` around a send that raised
Suppress(t) == NextIteration(t)

\* await session.send_notification(notification) completes
send_ok(t) ==
    /\ InCall(t, "notify_subscribers", "send")
    /\ NextIteration(t)
    /\ UNCHANGED <<subscriptions, lock, waiters, op, uri_str, session, sessions,
                   notification, attempts, failed, todo, uris_to_clean, mustGet>>

\* mutant: a session whose send raised is dropped from the URI's subscribers
send_raise_Prune(t) ==
    /\ InCall(t, "notify_subscribers", "send")
    /\ failed' = [failed EXCEPT ![t] = @ \cup {sessions[t][cursor[t]]}]
    /\ Suppress(t)
    /\ subscriptions' = UnsubscribeEffect(subscriptions, uri_str[t], sessions[t][cursor[t]])
    /\ UNCHANGED <<lock, waiters, op, uri_str, session, sessions,
                   notification, attempts, todo, uris_to_clean, mustGet>>

\* await session.send_notification(notification) raises an Exception
send_raise(t) ==
    /\ InCall(t, "notify_subscribers", "send")
    /\ failed' = [failed EXCEPT ![t] = @ \cup {sessions[t][cursor[t]]}]
    /\ Suppress(t)
    /\ UNCHANGED <<subscriptions, lock, waiters, op, uri_str, session, sessions,
                   notification, attempts, todo, uris_to_clean, mustGet>>

\* await session.send_notification(notification) never completes
send_stall(t) ==
    /\ InCall(t, "notify_subscribers", "send")
    /\ pc' = [pc EXCEPT ![t] = "stalled"]
    /\ UNCHANGED <<subscriptions, lock, waiters, op, uri_str, session, locals, ret, mustGet>>

\* ------------------------------------------------------------ cleanup_on_disconnect
\* mutant: the session is removed only where it is the sole subscriber
ScanDiscard_OnlySole(subs, u, s) ==
    IF subs[u] = {s} THEN Put(subs, u, {}) ELSE subs

\* one pass of the first loop's body on the entry of key u: the dict afterwards
ScanDiscard(subs, u, s) ==
    IF s \in subs[u] THEN Put(subs, u, subs[u] \ {s}) ELSE subs

\* mutant: the set is tested for emptiness before the discard, not after
ScanMark_TestBeforeDiscard(list, subs, u, s) ==
    IF s \in subs[u] /\ subs[u] = {} THEN Append(list, u) ELSE list

\* mutant: a URI is marked for deletion whenever the session was in its set
ScanMark_IgnoreOthers(list, subs, u, s) ==
    IF s \in subs[u] THEN Append(list, u) ELSE list

\* ... and uris_to_clean afterwards
ScanMark(list, subs, u, s) ==
    IF s \in subs[u] /\ subs[u] \ {s} = {} THEN Append(list, u) ELSE list

cleanup_on_disconnect(t) ==
    /\ \E s \in Sessions : Enter(t, "cleanup_on_disconnect", Nil, s)
    /\ UNCHANGED <<subscriptions, locals, mustGet>>

\* mutant: the cleanup calls a locking method of the manager from inside its own
\* `async with self._lock` block, and waits for the lock it holds
cleanup_locked_Reentrant(t) ==
    /\ InCall(t, "cleanup_on_disconnect", "locked")
    /\ waiters' = Append(waiters, t)
    /\ pc' = [pc EXCEPT ![t] = "wait"]
    /\ UNCHANGED <<subscriptions, lock, op, uri_str, session, locals, ret, mustGet>>

\* uris_to_clean = [] and the iteration over self._subscriptions.items() begins
cleanup_locked(t) ==
    /\ InCall(t, "cleanup_on_disconnect", "locked")
    /\ uris_to_clean' = [uris_to_clean EXCEPT ![t] = << >>]
    /\ todo' = [todo EXCEPT ![t] = DOMAIN subscriptions]
    /\ cursor' = [cursor EXCEPT ![t] = 1]
    /\ pc' = [pc EXCEPT ![t] = IF DOMAIN subscriptions = {} THEN "delete" ELSE "scan"]
    /\ UNCHANGED <<subscriptions, lock, waiters, op, uri_str, session, sessions,
                   notification, attempts, failed, ret, mustGet>>

\* mutant: the two loops are in separate critical sections, the lock given up
\* after the first
cleanup_scan_SplitLock(t) ==
    /\ InCall(t, "cleanup_on_disconnect", "scan")
    /\ \E u \in todo[t] :
          /\ subscriptions' = ScanDiscard(subscriptions, u, session[t])
          /\ uris_to_clean' = [uris_to_clean EXCEPT ![t] =
                                  ScanMark(@, subscriptions, u, session[t])]
          /\ todo' = [todo EXCEPT ![t] = @ \ {u}]
          /\ pc' = [pc EXCEPT ![t] = IF todo[t] = {u} THEN "delete" ELSE "scan"]
          /\ lock' = IF todo[t] = {u} THEN Nil ELSE lock
    /\ mustGet' = StillSubscribed(subscriptions')
    /\ UNCHANGED <<waiters, op, uri_str, session, sessions, cursor,
                   notification, attempts, failed, ret>>

\* one iteration of `for uri, sessions in self._subscriptions.items():`
cleanup_scan(t) ==
    /\ InCall(t, "cleanup_on_disconnect", "scan")
    /\ \E u \in todo[t] :
          /\ subscriptions' = ScanDiscard(subscriptions, u, session[t])
          /\ uris_to_clean' = [uris_to_clean EXCEPT ![t] =
                                  ScanMark(@, subscriptions, u, session[t])]
          /\ todo' = [todo EXCEPT ![t] = @ \ {u}]
          /\ pc' = [pc EXCEPT ![t] = IF todo[t] = {u} THEN "delete" ELSE "scan"]
    /\ mustGet' = StillSubscribed(subscriptions')
    /\ UNCHANGED <<lock, waiters, op, uri_str, session, sessions, cursor,
                   notification, attempts, failed, ret>>

\* one iteration of `for uri in uris_to_clean: del self._subscriptions[uri]`
cleanup_delete(t) ==
    /\ InCall(t, "cleanup_on_disconnect", "delete")
    /\ cursor[t] <= Len(uris_to_clean[t])
    /\ subscriptions' = Del(subscriptions, uris_to_clean[t][cursor[t]])
    /\ cursor' = [cursor EXCEPT ![t] = @ + 1]
    /\ UNCHANGED <<lock, waiters, pc, op, uri_str, session, sessions, notification,
                   attempts, failed, todo, uris_to_clean, ret, mustGet>>

\* the second loop is over: the block ends, the lock is released, None is returned
cleanup_release(t) ==
    /\ InCall(t, "cleanup_on_disconnect", "delete")
    /\ cursor[t] > Len(uris_to_clean[t])
    /\ Release(t)
    /\ Finish(t, RetNone)
    /\ UNCHANGED <<subscriptions, op, uri_str, session, locals, mustGet>>

\* ------------------------------------------------------------ introspection
get_subscriptions_count(t) ==
    /\ Enter(t, "get_subscriptions_count", Nil, Nil)
    /\ UNCHANGED <<subscriptions, locals, mustGet>>

get_subscriptions_count_locked(t) ==
    /\ InCall(t, "get_subscriptions_count", "locked")
    /\ Release(t)
    /\ Finish(t, RetInt(Count(subscriptions)))
    /\ UNCHANGED <<subscriptions, op, uri_str, session, locals, mustGet>>

is_subscribed(t) ==
    /\ \E u \in Uris, s \in Sessions : Enter(t, "is_subscribed", u, s)
    /\ UNCHANGED <<subscriptions, locals, mustGet>>

\* mutant: the lookup is `self._subscriptions.setdefault(uri_str, set())`
is_subscribed_locked_SetDefault(t) ==
    /\ InCall(t, "is_subscribed", "locked")
    /\ subscriptions' = IF uri_str[t] \in DOMAIN subscriptions
                        THEN subscriptions
                        ELSE Put(subscriptions, uri_str[t], {})
    /\ Release(t)
    /\ Finish(t, RetBool(session[t] \in Get(subscriptions, uri_str[t])))
    /\ UNCHANGED <<op, uri_str, session, locals, mustGet>>

is_subscribed_locked(t) ==
    /\ InCall(t, "is_subscribed", "locked")
    /\ Release(t)
    /\ Finish(t, RetBool(session[t] \in Get(subscriptions, uri_str[t])))
    /\ UNCHANGED <<subscriptions, op, uri_str, session, locals, mustGet>>

\* ------------------------------------------------------------ the caller
\* the caller has its result; the coroutine and its locals are gone
Return(t) ==
    /\ pc[t] = "done"
    /\ pc' = [pc EXCEPT ![t] = "idle"]
    /\ op' = [op EXCEPT ![t] = "none"]
    /\ uri_str' = [uri_str EXCEPT ![t] = Nil]
    /\ session' = [session EXCEPT ![t] = Nil]
    /\ sessions' = [sessions EXCEPT ![t] = << >>]
    /\ cursor' = [cursor EXCEPT ![t] = 0]
    /\ notification' = [notification EXCEPT ![t] = Nil]
    /\ attempts' = [attempts EXCEPT ![t] = << >>]
    /\ failed' = [failed EXCEPT ![t] = {}]
    /\ todo' = [todo EXCEPT ![t] = {}]
    /\ uris_to_clean' = [uris_to_clean EXCEPT ![t] = << >>]
    /\ ret' = [ret EXCEPT ![t] = Pending]
    /\ mustGet' = [mustGet EXCEPT ![t] = {}]
    /\ UNCHANGED <<subscriptions, lock, waiters>>

\* ------------------------------------------------------------ specifications
\* a new call by an idle task
Call(t) ==
    \/ subscribe(t)
    \/ unsubscribe(t)
    \/ notify_subscribers(t)
    \/ cleanup_on_disconnect(t)
    \/ get_subscriptions_count(t)
    \/ is_subscribed(t)

\* a step of a call that is under way
Running(t) ==
    \/ subscribe_locked(t)
    \/ unsubscribe_locked(t)
    \/ notify_locked(t)
    \/ notify_send(t)
    \/ send_ok(t)
    \/ send_raise(t)
    \/ send_stall(t)
    \/ cleanup_locked(t)
    \/ cleanup_scan(t)
    \/ cleanup_delete(t)
    \/ cleanup_release(t)
    \/ get_subscriptions_count_locked(t)
    \/ is_subscribed_locked(t)
    \/ Return(t)

\* ... or of one that waits for the lock
Progress(t) == Wakeup(t) \/ Running(t)

Next == \E t \in Tasks : Call(t) \/ Progress(t)

Spec == Init /\ [][Next]_vars

\* calls one after the other: a call is issued only when every other call has
\* returned, so that no task ever waits for the lock
Quiet(t) == \A x \in Tasks \ {t} : pc[x] = "idle"

SeqNext == \E t \in Tasks : (Quiet(t) /\ Call(t)) \/ Running(t)

SeqSpec == Init /\ [][SeqNext]_vars

\* the event loop runs every task that can take a step; nothing obliges a caller
\* to issue a call
FairSpec == Spec /\ \A t \in Tasks : WF_vars(Progress(t))

\* ------------------------------------------------------------ observations
\* the sessions a call has started a send_notification to
Attempted(t) == {attempts[t][i].to : i \in DOMAIN attempts[t]}

\* how many send_notification calls the call has started to session s
TimesTo(t, s) == Cardinality({i \in DOMAIN attempts[t] : attempts[t][i].to = s})

\* the task that is inside cleanup_on_disconnect's critical section, if any
Cleaning(t) == lock = t /\ op[t] = "cleanup_on_disconnect"

\* ------------------------------------------------------------ claims

\* C1. No dangling keys: a key of the subscriptions map has an empty set only
\* inside the critical section of the cleanup_on_disconnect that emptied it (the
\* key is deleted before that section releases the lock); in every other state,
\* so in every state any other call can see, every key's set is non-empty.
C1_NoDanglingKeys ==
    \A u \in DOMAIN subscriptions :
        subscriptions[u] = {} =>
            \E t \in Tasks :
                /\ Cleaning(t)
                /\ pc[t] \in {"scan", "delete"}
                /\ \E i \in DOMAIN uris_to_clean[t] :
                      i >= cursor[t] /\ uris_to_clean[t][i] = u

\* a cleanup has emptied a set, deleted its key and released the lock
C1_Witness ==
    \E t \in Tasks :
        /\ InCall(t, "cleanup_on_disconnect", "done")
        /\ Len(uris_to_clean[t]) >= 1
        /\ lock = Nil
        /\ \A i \in DOMAIN uris_to_clean[t] : uris_to_clean[t][i] \notin DOMAIN subscriptions

\* C2. Fan-out completeness: when calls do not overlap (SeqSpec), a
\* notify_subscribers(u) call that has returned has started exactly one
\* send_notification, carrying u, to each session subscribed to u, and none to
\* any other session (one subscribed only to other URIs, or one that
\* unsubscribed from u earlier).
C2_FanOutComplete ==
    \A t \in Tasks :
        InCall(t, "notify_subscribers", "done") =>
            /\ \A s \in Sessions :
                  TimesTo(t, s) = IF s \in Get(subscriptions, uri_str[t]) THEN 1 ELSE 0
            /\ \A i \in DOMAIN attempts[t] : attempts[t][i].uri = uri_str[t]

\* a returned notify whose URI has a subscriber, while another session is
\* subscribed only to another URI
C2_Witness ==
    \E t \in Tasks, s1 \in Sessions, s2 \in Sessions, u2 \in Uris :
        /\ InCall(t, "notify_subscribers", "done")
        /\ u2 # uri_str[t]
        /\ s1 \in Get(subscriptions, uri_str[t])
        /\ s2 \notin Get(subscriptions, uri_str[t])
        /\ s2 \in Get(subscriptions, u2)
        /\ TimesTo(t, s1) = 1

\* C3. Disconnect cleanup: no step taken while cleanup_on_disconnect(s) is in its
\* critical section changes whether any other session is subscribed to any URI,
\* and at the step that releases the lock and returns, s is in no URI's
\* subscriber set (is_subscribed(u, s) is false for every u), however many URIs s
\* was subscribed to before.
C3_DisconnectCleanup ==
    [][\A t \in Tasks :
          Cleaning(t) =>
              /\ \A u \in Uris, s2 \in Sessions \ {session[t]} :
                    (s2 \in Get(subscriptions, u)) <=> (s2 \in Get(subscriptions', u))
              /\ pc'[t] = "done" =>
                    \A u \in Uris : session[t] \notin Get(subscriptions', u)]_vars

\* a cleanup about to release the lock that removed its session from a URI it
\* held alone, while another session's subscription stays
C3_Witness ==
    \E t \in Tasks :
        /\ Cleaning(t)
        /\ pc[t] = "delete"
        /\ cursor[t] > Len(uris_to_clean[t])
        /\ Len(uris_to_clean[t]) >= 1
        /\ DOMAIN subscriptions # {}
        /\ \A u \in Uris : session[t] \notin Get(subscriptions, u)

\* C4. Fault isolation: a notify_subscribers call in which one or more sends
\* raised has, when it returns, started a send to every session of its snapshot,
\* and returns None rather than raising.
C4_FaultIsolation ==
    \A t \in Tasks :
        (InCall(t, "notify_subscribers", "done") /\ failed[t] # {}) =>
            /\ Range(sessions[t]) \subseteq Attempted(t)
            /\ ret[t].kind = "None"

\* the send to the first session of the snapshot raised, and the second session
\* still got its attempt
C4_Witness ==
    \E t \in Tasks :
        /\ InCall(t, "notify_subscribers", "done")
        /\ Len(sessions[t]) >= 2
        /\ sessions[t][1] \in failed[t]
        /\ sessions[t][2] \in Attempted(t)

\* C5. Subscribe is idempotent: the step in which subscribe(u, s) updates the map
\* leaves u mapped to a set that contains s and changes nothing else (the pairs
\* afterwards are the pairs before plus (u, s)); when (u, s) was already
\* subscribed the whole map is unchanged; get_subscriptions_count grows by 1 when
\* the pair is new and by 0 when it is repeated.
C5_SubscribeIdempotent ==
    [][\A t \in Tasks :
          (InCall(t, "subscribe", "locked") /\ pc'[t] = "done") =>
              LET u == uri_str[t]
                  s == session[t]
                  had == s \in Get(subscriptions, u)
              IN /\ u \in DOMAIN subscriptions'
                 /\ s \in subscriptions'[u]
                 /\ Pairs(subscriptions') = Pairs(subscriptions) \cup {<<u, s>>}
                 /\ had => subscriptions' = subscriptions
                 /\ Count(subscriptions') = Count(subscriptions) + (IF had THEN 0 ELSE 1)]_vars

\* two subscribe calls for the same pair have returned and the map holds that
\* pair once
C5_Witness ==
    \E t1 \in Tasks, t2 \in Tasks :
        /\ t1 # t2
        /\ InCall(t1, "subscribe", "done")
        /\ InCall(t2, "subscribe", "done")
        /\ uri_str[t1] = uri_str[t2]
        /\ session[t1] = session[t2]
        /\ Pairs(subscriptions) = {<<uri_str[t1], session[t1]>>}
        /\ Count(subscriptions) = 1

\* C6. Unsubscribe removes exactly the pair (u, s): the step in which
\* unsubscribe(u, s) updates the map removes (u, s) and no other pair, leaves u
\* a key exactly when other subscribers of u remain, changes nothing at all when
\* u is not a key or s is not in u's set (so a second unsubscribe(u, s) finds
\* the pair absent and changes nothing), and returns None.
C6_UnsubscribeExact ==
    [][\A t \in Tasks :
          (InCall(t, "unsubscribe", "locked") /\ pc'[t] = "done") =>
              LET u == uri_str[t]
                  s == session[t]
              IN /\ Pairs(subscriptions') = Pairs(subscriptions) \ {<<u, s>>}
                 /\ u \in DOMAIN subscriptions' <=> Get(subscriptions, u) \ {s} # {}
                 /\ DOMAIN subscriptions' \ {u} = DOMAIN subscriptions \ {u}
                 /\ s \notin Get(subscriptions, u) => subscriptions' = subscriptions
                 /\ ret'[t].kind = "None"]_vars

\* a pair that one task subscribed has been removed, with its key, by the
\* unsubscribe of another task
C6_Witness ==
    \E t1 \in Tasks, t2 \in Tasks :
        /\ InCall(t1, "subscribe", "done")
        /\ InCall(t2, "unsubscribe", "done")
        /\ uri_str[t1] = uri_str[t2]
        /\ session[t1] = session[t2]
        /\ uri_str[t1] \notin DOMAIN subscriptions

\* C7. Isolation between URIs: a step of subscribe(u1, s), unsubscribe(u1, s) or
\* notify_subscribers(u1) leaves the subscriber set of every other URI u2, and
\* whether u2 is a key, unchanged; the snapshot of notify_subscribers(u1) holds
\* only sessions subscribed to u1 (so none subscribed only to u2), and every
\* send is to a session of the snapshot.
C7_Isolation ==
    [][\A t \in Tasks :
          (pc'[t] # pc[t] /\ op'[t] \in {"subscribe", "unsubscribe", "notify_subscribers"}) =>
              /\ \A u2 \in Uris \ {uri_str'[t]} :
                    /\ Get(subscriptions', u2) = Get(subscriptions, u2)
                    /\ u2 \in DOMAIN subscriptions' <=> u2 \in DOMAIN subscriptions
              /\ sessions'[t] # sessions[t] =>
                    Range(sessions'[t]) \subseteq Get(subscriptions, uri_str[t])
              /\ attempts'[t] # attempts[t] =>
                    /\ Len(attempts'[t]) = Len(attempts[t]) + 1
                    /\ attempts'[t][Len(attempts'[t])].to \in Range(sessions[t])]_vars

\* a session unsubscribed from one URI is still subscribed to another
C7_Witness ==
    \E t \in Tasks, u2 \in Uris :
        /\ InCall(t, "unsubscribe", "done")
        /\ u2 # uri_str[t]
        /\ session[t] \in Get(subscriptions, u2)
        /\ session[t] \notin Get(subscriptions, uri_str[t])

\* C8. Delivery is never performed while holding the lock: notify_subscribers
\* holds the lock only at the point where it copies the subscriber set, never
\* while it is between sends, inside a send, or stalled in one.
C8_NoLockDuringDelivery ==
    \A t \in Tasks :
        (op[t] = "notify_subscribers" /\ lock = t) => pc[t] = "locked"

\* a send is in flight while another task holds the lock
C8_Witness ==
    \E t \in Tasks :
        /\ InCall(t, "notify_subscribers", "send")
        /\ lock # Nil
        /\ lock # t

\* C9. Guaranteed receipt after subscribe: a session that was subscribed to u
\* when notify_subscribers(u) was called, and that no unsubscribe or cleanup
\* removed from u before that call took its snapshot, has been sent to when the
\* call returns, whatever other calls ran meanwhile.
C9_ReceiptAfterSubscribe ==
    \A t \in Tasks :
        InCall(t, "notify_subscribers", "done") => mustGet[t] \subseteq Attempted(t)

\* ... and a session whose subscribe overlapped the call may get the
\* notification too: the snapshot holds a session that was not yet subscribed
\* when the call was issued
C9_Witness ==
    \E t \in Tasks :
        /\ InCall(t, "notify_subscribers", "done")
        /\ mustGet[t] # {}
        /\ Attempted(t) \ mustGet[t] # {}

\* C10. Independent deliveries: when a send of a notify_subscribers call never
\* completes, every other session of that call's snapshot still has its send
\* started, sooner or later.
C10_IndependentDeliveries ==
    \A t \in Tasks, s \in Sessions :
        (pc[t] = "stalled" /\ s \in Range(sessions[t])) ~> (s \in Attempted(t))

\* C11. A stalled delivery does not block the registry: while some task's
\* notify_subscribers is stalled in a send that never completes, every
\* subscribe, unsubscribe, cleanup_on_disconnect, get_subscriptions_count and
\* is_subscribed call that another task has issued goes on to take the lock and
\* return (the event loop runs every task that can take a step, and the lock
\* serves its waiters in order).
C11_StallDoesNotBlock ==
    \A t \in Tasks :
        (/\ \E x \in Tasks \ {t} : pc[x] = "stalled"
         /\ pc[t] \notin {"idle", "done"}
         /\ op[t] # "notify_subscribers")
        ~> (pc[t] = "done")

\* while a notify is stalled in the send to a session, another task's
\* unsubscribe of that very session has returned, the pair removed
C11_Witness ==
    \E x \in Tasks, t \in Tasks :
        /\ pc[x] = "stalled"
        /\ InCall(t, "unsubscribe", "done")
        /\ uri_str[t] = uri_str[x]
        /\ session[t] = sessions[x][cursor[x]]
        /\ session[t] \notin Get(subscriptions, uri_str[t])
        /\ lock = Nil

\* a cleanup_on_disconnect that has begun its loops and not yet left its block
MidCleanup(t) == op[t] = "cleanup_on_disconnect" /\ pc[t] \in {"scan", "delete"}

\* C12. Cleanup is atomic: a task that is at the point of reading or writing the
\* map under the lock never does so while another task's cleanup_on_disconnect
\* is between its first removal and its release, and the map it sees has no key
\* with an empty set; so the half-cleaned states of a cleanup are seen by the
\* cleanup alone.
C12_CleanupAtomic ==
    \A x \in Tasks :
        /\ pc[x] \in {"locked", "scan", "delete"} =>
              \A t \in Tasks \ {x} : ~MidCleanup(t)
        /\ pc[x] = "locked" =>
              \A u \in DOMAIN subscriptions : subscriptions[u] # {}

\* a cleanup has emptied one URI's set, its key still there, and has not yet
\* reached another URI of its session, while another task waits for the lock
C12_Witness ==
    \E t \in Tasks, x \in Tasks :
        /\ MidCleanup(t)
        /\ pc[t] = "scan"
        /\ \E u \in DOMAIN subscriptions : subscriptions[u] = {}
        /\ \E u \in todo[t] : session[t] \in subscriptions[u]
        /\ pc[x] = "wait"

\* C13. A delivery failure does not remove the subscription and is not retried:
\* the step in which a send raises leaves the subscriptions map unchanged; no
\* call ever starts a second send to the same session; a pair (u, s) leaves the
\* map only in a step of unsubscribe(u, s) or of cleanup_on_disconnect(s); and
\* a notify_subscribers(u) call issued while s is subscribed and not removed
\* before its snapshot sends to s, also when an earlier call's send to s raised.
C13_FailureKeepsSubscription ==
    [][/\ \A t \in Tasks :
             (pc[t] = "send" /\ failed'[t] # failed[t]) => subscriptions' = subscriptions
       /\ \A t \in Tasks, s \in Sessions :
             Cardinality({i \in DOMAIN attempts'[t] : attempts'[t][i].to = s}) <= 1
       /\ \A p \in Pairs(subscriptions) \ Pairs(subscriptions') :
             \E t \in Tasks :
                 \/ InCall(t, "unsubscribe", "locked") /\ uri_str[t] = p[1] /\ session[t] = p[2]
                 \/ InCall(t, "cleanup_on_disconnect", "scan") /\ session[t] = p[2]
       /\ \A t1 \in Tasks, t2 \in Tasks, s \in Sessions :
             (/\ t1 # t2
              /\ InCall(t1, "notify_subscribers", "done")
              /\ InCall(t2, "notify_subscribers", "done")
              /\ uri_str[t1] = uri_str[t2]
              /\ s \in failed[t1]
              /\ s \in mustGet[t2]) => s \in Attempted(t2)]_vars

\* the send of one call to a session raised, once; the session is still
\* subscribed, and another call for the same URI has sent to it
C13_Witness ==
    \E t1 \in Tasks, t2 \in Tasks, s \in Sessions :
        /\ t1 # t2
        /\ InCall(t1, "notify_subscribers", "done")
        /\ InCall(t2, "notify_subscribers", "done")
        /\ uri_str[t1] = uri_str[t2]
        /\ s \in failed[t1]
        /\ TimesTo(t1, s) = 1
        /\ s \in Get(subscriptions, uri_str[t1])
        /\ s \in mustGet[t2]
        /\ s \in Attempted(t2)
        /\ s \notin failed[t2]

\* C14. notify_subscribers with no subscribers is a no-op: when the URI has no
\* subscriber at the snapshot, the call returns None at once, having made no
\* delivery attempt and built no notification, and the subscriptions map is
\* the same after the snapshot as before it (no entry appears for the URI).
C14_NotifyNoSubscribers ==
    [][\A t \in Tasks :
          /\ (/\ InCall(t, "notify_subscribers", "locked")
              /\ Get(subscriptions, uri_str[t]) = {}
              /\ pc'[t] # pc[t]) =>
                 /\ pc'[t] = "done"
                 /\ ret'[t] = RetNone
                 /\ sessions'[t] = << >>
                 /\ attempts'[t] = << >>
                 /\ notification'[t] = Nil
                 /\ subscriptions' = subscriptions
          /\ (/\ op[t] = "notify_subscribers"
              /\ pc[t] \notin {"idle", "wait", "locked"}
              /\ sessions[t] = << >>) =>
                 /\ pc[t] = "done"
                 /\ ret[t] = RetNone
                 /\ attempts[t] = << >>
                 /\ notification[t] = Nil]_vars

\* a call for a URI without an entry has returned, while another URI has
\* subscribers
C14_Witness ==
    \E t \in Tasks :
        /\ InCall(t, "notify_subscribers", "done")
        /\ sessions[t] = << >>
        /\ uri_str[t] \notin DOMAIN subscriptions
        /\ DOMAIN subscriptions # {}

\* C15. notify_subscribers is the sole trigger of outbound notifications: a
\* delivery attempt is only ever started by a step of a notify_subscribers
\* call, at the head of its loop; subscribe, unsubscribe, cleanup_on_disconnect,
\* get_subscriptions_count and is_subscribed never have an attempt to their name.
C15_NotifyIsSoleTrigger ==
    [][\A t \in Tasks :
          /\ Len(attempts'[t]) > Len(attempts[t]) =>
                InCall(t, "notify_subscribers", "loop")
          /\ attempts[t] # << >> => op[t] = "notify_subscribers"]_vars

\* calls of two other operations have run to their end with no attempt made,
\* though the session they name is subscribed
C15_Witness ==
    \E t \in Tasks, x \in Tasks :
        /\ InCall(t, "subscribe", "done")
        /\ InCall(x, "is_subscribed", "done")
        /\ session[t] \in Get(subscriptions, uri_str[t])
        /\ attempts[t] = << >>
        /\ attempts[x] = << >>

\* C16. Introspection reflects one consistent snapshot: the step in which
\* get_subscriptions_count computes its result holds the lock, no cleanup is
\* half done, and the result is the number of distinct (uri, session) pairs in
\* the map of that state; the step in which is_subscribed computes its result
\* returns TRUE exactly when the session is in the URI's set in that state.
C16_IntrospectionSnapshot ==
    [][\A t \in Tasks :
          /\ (InCall(t, "get_subscriptions_count", "locked") /\ pc'[t] = "done") =>
                /\ lock = t
                /\ \A x \in Tasks \ {t} : ~MidCleanup(x)
                /\ ret'[t] = RetInt(Cardinality(Pairs(subscriptions)))
          /\ (InCall(t, "is_subscribed", "locked") /\ pc'[t] = "done") =>
                /\ lock = t
                /\ \A x \in Tasks \ {t} : ~MidCleanup(x)
                /\ ret'[t] = RetBool(/\ uri_str[t] \in DOMAIN subscriptions
                                     /\ session[t] \in subscriptions[uri_str[t]])]_vars

\* a count of three pairs over two URIs has been returned, and so has the
\* answer FALSE of is_subscribed for a URI that has subscribers
C16_Witness ==
    \E t \in Tasks, x \in Tasks :
        /\ InCall(t, "get_subscriptions_count", "done")
        /\ ret[t] = RetInt(3)
        /\ Cardinality(DOMAIN subscriptions) = 2
        /\ InCall(x, "is_subscribed", "done")
        /\ uri_str[x] \in DOMAIN subscriptions
        /\ ret[x] = RetBool(FALSE)

\* a call that removes session s from URI u's subscribers is under way
Removing(u, s) ==
    \E x \in Tasks :
        /\ pc[x] \in {"locked", "scan", "delete"}
        /\ session[x] = s
        /\ \/ op[x] = "cleanup_on_disconnect"
           \/ op[x] = "unsubscribe" /\ uri_str[x] = u

\* C17 (as claimed). No delivery to a departed session: once
\* cleanup_on_disconnect(s) or unsubscribe(u, s) has returned, no delivery
\* attempt for u to s is started, also not by a notify_subscribers(u) call that
\* took its snapshot earlier: every attempt is started while s is subscribed
\* to u (or while the call that removes it has not yet returned).
C17_NoDeliveryToDeparted ==
    [][\A t \in Tasks :
          Len(attempts'[t]) > Len(attempts[t]) =>
             LET a == attempts'[t][Len(attempts'[t])]
             IN a.to \in Get(subscriptions, a.uri) \/ Removing(a.uri, a.to)]_vars

\* C17 (amended). Every delivery attempt for u goes to a session of the call's
\* snapshot, and the snapshot is exactly u's subscribers in the state in which
\* it is taken, under the lock, with no removal half done: a call that takes
\* its snapshot after s was removed makes no attempt to s, while a call that
\* took it before may still do so.
C17_DeliveryToSnapshotOnly ==
    [][\A t \in Tasks :
          /\ (InCall(t, "notify_subscribers", "locked") /\ pc'[t] # "locked") =>
                /\ lock = t
                /\ \A x \in Tasks \ {t} : ~MidCleanup(x)
                /\ Range(sessions'[t]) = Get(subscriptions, uri_str[t])
          /\ Len(attempts'[t]) > Len(attempts[t]) =>
                LET a == attempts'[t][Len(attempts'[t])]
                IN /\ a.uri = uri_str[t]
                   /\ a.to \in Range(sessions[t])
                   /\ sessions'[t] = sessions[t]]_vars

\* a send to a session is under way for a URI the session is no longer
\* subscribed to, its cleanup_on_disconnect call having returned
C17_Witness ==
    \E t \in Tasks, x \in Tasks :
        /\ InCall(t, "notify_subscribers", "send")
        /\ InCall(x, "cleanup_on_disconnect", "done")
        /\ session[x] = sessions[t][cursor[t]]
        /\ attempts[t][Len(attempts[t])].to = session[x]
        /\ session[x] \notin Get(subscriptions, uri_str[t])

\* the state of a URI in the map; "EMPTIED" is a key left with an empty set
Lifecycle(subs, u) ==
    IF u \notin DOMAIN subs THEN "ABSENT"
    ELSE IF subs[u] = {} THEN "EMPTIED" ELSE "SUBSCRIBED"

\* the URIs a cleanup has marked and not yet deleted
ToDelete(t) == {uris_to_clean[t][i] : i \in cursor[t]..Len(uris_to_clean[t])}

\* C18. Per-URI lifecycle: a URI is ABSENT (no key) or SUBSCRIBED (a key with
\* at least one subscriber), except inside a cleanup_on_disconnect that holds
\* the lock and has the emptied key on its list of deletions. ABSENT becomes
\* SUBSCRIBED only by a subscribe on that URI; SUBSCRIBED becomes ABSENT only by
\* an unsubscribe on that URI of its last subscriber, or, through the emptied
\* key, by the cleanup of its last subscriber; an unsubscribe or cleanup that
\* removes a subscriber while others remain removes only that subscriber and
\* leaves the URI SUBSCRIBED.
C18_Lifecycle ==
    [][\A u \in Uris :
          LET was == Lifecycle(subscriptions, u)
              is == Lifecycle(subscriptions', u)
          IN /\ was = "EMPTIED" =>
                   /\ \E t \in Tasks : Cleaning(t) /\ pc[t] \in {"scan", "delete"}
                                       /\ (pc[t] = "delete" => u \in ToDelete(t))
                   /\ is \in {"EMPTIED", "ABSENT"}
             /\ (was = "ABSENT" /\ is # "ABSENT") =>
                   /\ is = "SUBSCRIBED"
                   /\ \E t \in Tasks : /\ InCall(t, "subscribe", "locked")
                                       /\ pc'[t] = "done"
                                       /\ uri_str[t] = u
                                       /\ subscriptions'[u] = {session[t]}
             /\ (was = "SUBSCRIBED" /\ is = "ABSENT") =>
                   \E t \in Tasks : /\ InCall(t, "unsubscribe", "locked")
                                    /\ pc'[t] = "done"
                                    /\ uri_str[t] = u
                                    /\ subscriptions[u] = {session[t]}
             /\ (was = "SUBSCRIBED" /\ is = "EMPTIED") =>
                   \E t \in Tasks : /\ InCall(t, "cleanup_on_disconnect", "scan")
                                    /\ lock = t
                                    /\ subscriptions[u] = {session[t]}
                                    /\ u \in Range(uris_to_clean'[t])
             /\ (was = "EMPTIED" /\ is = "ABSENT") =>
                   \E t \in Tasks : /\ InCall(t, "cleanup_on_disconnect", "delete")
                                    /\ lock = t
                                    /\ cursor'[t] = cursor[t] + 1
             /\ \A t \in Tasks :
                   (/\ \/ InCall(t, "unsubscribe", "locked") /\ pc'[t] = "done" /\ uri_str[t] = u
                       \/ InCall(t, "cleanup_on_disconnect", "scan") /\ u \in todo[t] \ todo'[t]
                    /\ was = "SUBSCRIBED"
                    /\ subscriptions[u] # {session[t]}) =>
                         /\ is = "SUBSCRIBED"
                         /\ subscriptions'[u] = subscriptions[u] \ {session[t]}
             /\ \A t \in Tasks :
                   (InCall(t, "cleanup_on_disconnect", "delete") /\ pc'[t] = "done") =>
                         was # "EMPTIED"]_vars

\* a cleanup has returned that took one URI, where its session was the last
\* subscriber, to ABSENT, and left SUBSCRIBED another URI
C18_Witness ==
    \E t \in Tasks :
        /\ InCall(t, "cleanup_on_disconnect", "done")
        /\ Len(uris_to_clean[t]) = 1
        /\ Lifecycle(subscriptions, uris_to_clean[t][1]) = "ABSENT"
        /\ \E u \in Uris : Lifecycle(subscriptions, u) = "SUBSCRIBED"

\* the value each operation returns to its caller
ResultKind(o) ==
    CASE o = "get_subscriptions_count" -> "int"
      [] o = "is_subscribed" -> "bool"
      [] OTHER -> "None"

\* C19. Every operation terminates without deadlock: under fair scheduling,
\* every call that has been issued returns, however many other calls are
\* running, unless a delivery attempt of its own never returns nor fails; a
\* notify_subscribers call that has returned has made one attempt per session
\* of its snapshot; and no call returns an error: each returns None, its count
\* or its answer.
C19_Termination ==
    /\ \A t \in Tasks :
          (pc[t] \notin {"idle", "done"}) ~> (pc[t] = "done" \/ pc[t] = "stalled")
    /\ [](\A t \in Tasks :
            /\ ret[t] # RetRaise
            /\ pc[t] = "done" => ret[t].kind = ResultKind(op[t])
            /\ InCall(t, "notify_subscribers", "done") =>
                  /\ Len(attempts[t]) = Len(sessions[t])
                  /\ \A s \in Range(sessions[t]) : TimesTo(t, s) = 1)

\* two calls that ran concurrently have both returned None: a notification
\* with two attempts, one of which failed, and a cleanup that emptied a URI
C19_Witness ==
    \E t \in Tasks, x \in Tasks :
        /\ InCall(t, "notify_subscribers", "done")
        /\ Len(attempts[t]) = 2
        /\ Cardinality(failed[t]) = 1
        /\ ret[t] = RetNone
        /\ InCall(x, "cleanup_on_disconnect", "done")
        /\ uris_to_clean[x] # << >>
        /\ ret[x] = RetNone

ReadOnlyOps == {"notify_subscribers", "get_subscriptions_count", "is_subscribed"}

\* C20. Read-only operations leave the registry unchanged: no step of a
\* notify_subscribers, get_subscriptions_count or is_subscribed call, from its
\* issue to its return, whether its sends complete or raise, changes the
\* subscriptions map: no key and no session is added or removed, and a lookup
\* of a URI that is not a key creates no entry.
C20_ReadOnly ==
    [][\A t \in Tasks :
          (/\ op[t] \in ReadOnlyOps \/ op'[t] \in ReadOnlyOps
           /\ <<pc[t], cursor[t], sessions[t], attempts[t], failed[t], ret[t]>>
                 # <<pc'[t], cursor'[t], sessions'[t], attempts'[t], failed'[t], ret'[t]>>)
          => subscriptions' = subscriptions]_vars

\* is_subscribed has answered FALSE for a URI that is not a key and still is
\* none, beside a notify_subscribers call that has returned after a failed
\* send to a session that is still subscribed
C20_Witness ==
    \E t \in Tasks, x \in Tasks :
        /\ InCall(t, "is_subscribed", "done")
        /\ ret[t] = RetBool(FALSE)
        /\ uri_str[t] \notin DOMAIN subscriptions
        /\ InCall(x, "notify_subscribers", "done")
        /\ failed[x] # {}
        /\ failed[x] \subseteq Get(subscriptions, uri_str[x])

\* the set of (uri, session) pairs the map stands for: its pairs, a cleanup
\* that has begun counting as done for its session
AbstractPairs ==
    {p \in Pairs(subscriptions) : \A t \in Tasks : MidCleanup(t) => p[2] # session[t]}

\* the step in which task t's call of operation o takes effect
Takes(t, o) ==
    /\ InCall(t, o, "locked")
    /\ pc'[t] # "locked"

\* C21. The map of sets refines an abstract set P of (uri, session) pairs: P
\* is empty at first; the step in which subscribe(u, s) takes effect is
\* P := P \cup {(u, s)}, that of unsubscribe(u, s) is P := P \ {(u, s)}, that of
\* cleanup_on_disconnect(s) is P := P minus the pairs of s, and every other
\* step, of any operation, leaves P unchanged; whenever no cleanup is between
\* its first step and its return, the map holds exactly the pairs of P and its
\* keys are exactly the URIs that occur in P.
C21_RefinesPairSet ==
    /\ AbstractPairs = {}
    /\ [][/\ \A t \in Tasks :
                /\ Takes(t, "subscribe") =>
                      AbstractPairs' = AbstractPairs \cup {<<uri_str[t], session[t]>>}
                /\ Takes(t, "unsubscribe") =>
                      AbstractPairs' = AbstractPairs \ {<<uri_str[t], session[t]>>}
                /\ Takes(t, "cleanup_on_disconnect") =>
                      AbstractPairs' = {p \in AbstractPairs : p[2] # session[t]}
          /\ (\A t \in Tasks : /\ ~Takes(t, "subscribe")
                               /\ ~Takes(t, "unsubscribe")
                               /\ ~Takes(t, "cleanup_on_disconnect")) =>
                AbstractPairs' = AbstractPairs
          /\ (\A t \in Tasks : ~MidCleanup(t)) =>
                /\ DOMAIN subscriptions = {p[1] : p \in AbstractPairs}
                /\ \A u \in Uris, s \in Sessions :
                      <<u, s>> \in AbstractPairs <=>
                         (u \in DOMAIN subscriptions /\ s \in subscriptions[u])
                /\ Count(subscriptions) = Cardinality(AbstractPairs)]_vars

\* a cleanup is under way whose session is still in the map under one URI,
\* beside a pair of another session: the map and P differ until it returns
C21_Witness ==
    \E t \in Tasks :
        /\ MidCleanup(t)
        /\ AbstractPairs # {}
        /\ AbstractPairs # Pairs(subscriptions)
        /\ uris_to_clean[t] # << >>
====
